---- MODULE Spec2Model ----
(***************************************************************************)
(* A model of hatch_jupyter_builder/utils.py: the staleness detector       *)
(* (is_stale, compare_recursive_mtime, recursive_mtime), the command       *)
(* normaliser (normalize_cmd, run) and the orchestrator (npm_builder).     *)
(*                                                                         *)
(* Two specifications:                                                     *)
(*   SpecStale  applies the pure function is_stale to every pair of        *)
(*              bounded file trees;                                        *)
(*   Spec       is a process that calls npm_builder up to MaxCalls times;  *)
(*              sys.argv and os.environ are process state, and what the    *)
(*              file system, the execution path and the subprocesses       *)
(*              answer is drawn at the point where the code asks.          *)
(***************************************************************************)
EXTENDS Integers, Sequences, FiniteSets, TLC

\* ---------------------------------------------------------------- bounds
\* modification times are 0 .. MaxMtime (st_mtime of a file, seconds)
MaxMtime == 1
\* at most MaxFiles files in one tree
MaxFiles == 2
\* at most MaxSubs sub-directories in a directory (sub-directories hold files only)
MaxSubs == 1
\* sys.argv holds at most MaxArgs arguments after the program name
MaxArgs == 2
\* the process calls npm_builder at most MaxCalls times
MaxCalls == 2

\* Python's None, where the value is otherwise a string
None == "None"

Range(s) == {s[i] : i \in 1..Len(s)}

SeqsUpTo(S, n) == UNION {[1..k -> S] : k \in 0..n}

\* ------------------------------------------------------------ file trees
Mtimes == 0..MaxMtime

\* A path of the file system: absent, a file with its mtime, or a directory
\* with the mtimes of its files (in listing order) and its sub-directories.
Absent == [kind |-> "absent", mt |-> 0, files |-> <<>>, subs |-> <<>>]

FileNode(m) == [kind |-> "file", mt |-> m, files |-> <<>>, subs |-> <<>>]

DirNode(fs, ss) == [kind |-> "dir", mt |-> 0, files |-> fs, subs |-> ss]

exists(p) == p.kind # "absent"

is_file(p) == p.kind = "file"

\* os.walk(path, topdown=False), flattened to the mtimes of the file names it
\* yields: every sub-directory's files (bottom-up) before the directory's own.
\* A file or an absent path yields nothing.
RECURSIVE walk(_)
walk(p) ==
    IF p.kind # "dir" THEN <<>>
    ELSE LET RECURSIVE below(_)
             below(i) == IF i > Len(p.subs) THEN <<>>
                         ELSE walk(p.subs[i]) \o below(i + 1)
         IN below(1) \o p.files

\* `a or b` on numbers: a unless it is falsy (zero)
PyOr(a, b) == IF a # 0 THEN a ELSE b

\* the loop of recursive_mtime over the walked mtimes, from current_extreme
RECURSIVE extreme_loop(_, _, _)
extreme_loop(mts, current_extreme, newest) ==
    IF mts = <<>> THEN current_extreme
    ELSE LET mt == Head(mts)
             take == IF newest THEN mt >= PyOr(current_extreme, mt)
                               ELSE mt <= PyOr(current_extreme, mt)
         IN extreme_loop(Tail(mts), IF take THEN mt ELSE current_extreme, newest)

\* a plausible slip: the last file walked wins, whatever its mtime
recursive_mtime_last(path, newest) ==
    IF is_file(path) THEN path.mt
    ELSE IF walk(path) = <<>> THEN -1
    ELSE walk(path)[Len(walk(path))]

recursive_mtime(path, newest) ==
    IF is_file(path) THEN path.mt
    ELSE extreme_loop(walk(path), -1, newest)

compare_recursive_mtime(path, cutoff, newest) ==
    \/ /\ is_file(path)
       /\ IF newest THEN path.mt > cutoff ELSE path.mt < cutoff
    \/ \E i \in 1..Len(walk(path)) :
          IF newest THEN walk(path)[i] > cutoff ELSE walk(path)[i] < cutoff

\* a plausible slip: the target is looked at before the source
is_stale_target_first(target, source) ==
    IF ~exists(target) THEN TRUE
    ELSE IF ~exists(source) THEN FALSE
    ELSE compare_recursive_mtime(source, PyOr(recursive_mtime(target, TRUE), 0), TRUE)

is_stale(target, source) ==
    IF ~exists(source) THEN FALSE
    ELSE IF ~exists(target) THEN TRUE
    ELSE LET target_mtime == PyOr(recursive_mtime(target, TRUE), 0)
         IN compare_recursive_mtime(source, target_mtime, TRUE)

\* ------------------------------------------------- the trees that are drawn
CountFiles(p) ==
    LET RECURSIVE sum(_)
        sum(i) == IF i > Len(p.subs) THEN 0 ELSE Len(p.subs[i].files) + sum(i + 1)
    IN Len(p.files) + sum(1)

LeafDirs == {DirNode(fs, <<>>) : fs \in SeqsUpTo(Mtimes, MaxFiles)}

Dirs == {d \in {DirNode(fs, ss) : fs \in SeqsUpTo(Mtimes, MaxFiles),
                                  ss \in SeqsUpTo(LeafDirs, MaxSubs)} :
            CountFiles(d) <= MaxFiles}

Trees == {Absent} \cup {FileNode(m) : m \in Mtimes} \cup Dirs

\* ---------------------------------------------------------------- state
VARIABLES
    target,      \* SpecStale: the tree at is_stale's target
    source,      \* SpecStale: the tree at is_stale's source
    verdict,     \* SpecStale: <<>>, or <<b>> once is_stale has returned b
    argv0,       \* sys.argv when the process started
    argv,        \* sys.argv
    environ,     \* os.environ.get("HATCH_JUPYTER_BUILDER_SKIP_NPM")
    calls,       \* how many npm_builder calls the process has made
    call         \* the npm_builder call that has just run, or NoCall

vars == <<target, source, verdict, argv0, argv, environ, calls, call>>

NoCall == [state |-> "none"]

builderVars == <<argv0, argv, environ, calls, call>>

staleVars == <<target, source, verdict>>

\* -------------------------------------------------------------- SpecStale
InitStale ==
    /\ target \in Trees
    /\ source \in Trees
    /\ verdict = <<>>
    /\ argv0 = <<"hatch">>
    /\ argv = <<"hatch">>
    /\ environ = None
    /\ calls = 0
    /\ call = NoCall

is_stale_call ==
    /\ verdict = <<>>
    /\ verdict' = <<is_stale(target, source)>>
    /\ UNCHANGED <<target, source>>
    /\ UNCHANGED builderVars

NextStale == is_stale_call

SpecStale == InitStale /\ [][NextStale]_vars

\* ------------------------------------------------------------ npm_builder
SKIP_FLAG == "--skip-npm"

ArgWords == {SKIP_FLAG, "-v"}

Argvs == {<<"hatch">> \o t : t \in SeqsUpTo(ArgWords, MaxArgs)}

\* os.environ.get("HATCH_JUPYTER_BUILDER_SKIP_NPM")
EnvValues == {None, "1", "0"}

\* list.remove(x): the first occurrence goes, the rest keeps its order
ListRemove(s, x) ==
    LET i == CHOOSE k \in 1..Len(s) : s[k] = x /\ \A j \in 1..(k - 1) : s[j] # x
    IN SubSeq(s, 1, i - 1) \o SubSeq(s, i + 1, Len(s))

\* a plausible slip: the environment variable is not looked at
skip_requested_argv_only(av, env) == SKIP_FLAG \in Range(av)

\* the condition of line 62
skip_requested(av, env) == SKIP_FLAG \in Range(av) \/ env = "1"

\* sys.argv after lines 62-68
argv_after(av, env) ==
    IF skip_requested(av, env) /\ SKIP_FLAG \in Range(av)
    THEN ListRemove(av, SKIP_FLAG)
    ELSE av

\* a plausible slip: the checkout test is left out
wheel_from_sdist_no_git(target_name, is_git_checkout, force) ==
    target_name = "wheel" /\ ~force

\* a plausible slip: the checkout test is inverted
wheel_from_sdist_inverted(target_name, is_git_checkout, force) ==
    target_name = "wheel" /\ is_git_checkout /\ ~force

\* the condition of line 71
wheel_from_sdist(target_name, is_git_checkout, force) ==
    target_name = "wheel" /\ ~is_git_checkout /\ ~force

\* lines 78-79: `editable_build_cmd or build_cmd` in an editable build
effective_build_cmd(version, build_cmd, editable_build_cmd) ==
    IF version = "editable"
    THEN IF editable_build_cmd # None THEN editable_build_cmd ELSE build_cmd
    ELSE build_cmd

\* Path(path).resolve(), the process running in /work
resolve(path) == IF path = "." THEN "/work" ELSE "/work/js"

\* --- the execution path
ToolNames == {"npm", "yarn"}

BinPath(name) ==
    CASE name = "npm" -> "/usr/bin/npm"
      [] name = "yarn" -> "/usr/bin/yarn"
      [] OTHER -> None

\* an absolute path no directory of the execution path holds
OptNpm == "/opt/node/bin/npm"

is_absolute(word) == word \in {BinPath(n) : n \in ToolNames} \cup {OptNpm}

\* shutil.which(name), onPath being the names the execution path holds
which(name, onPath) == IF name \in onPath THEN BinPath(name) ELSE None

\* whether the file at an absolute path exists and is executable
executable(word, onPath, optInstalled) ==
    \/ \E n \in onPath : word = BinPath(n)
    \/ word = OptNpm /\ optInstalled

\* --- the npm argument: None, a string, or a list
NpmNone == [kind |-> "none", str |-> "", list |-> <<>>]

NpmStr(s) == [kind |-> "str", str |-> s, list |-> <<>>]

NpmList(l) == [kind |-> "list", str |-> "", list |-> l]

NpmArgs == {NpmNone, NpmStr("npm"), NpmList(<<"yarn", "--silent">>),
            NpmList(<<OptNpm>>), NpmList(<<>>)}

\* a plausible slip: a yarn.lock selects yarn whether or not yarn is found
find_tool_lock_only(npm, yarn_lock, onPath) ==
    IF npm.kind = "str" THEN [npm |-> <<npm.str>>, lock |-> "unread", looked |-> <<>>, warnings |-> <<>>]
    ELSE IF npm.kind = "list" THEN [npm |-> npm.list, lock |-> "unread", looked |-> <<>>, warnings |-> <<>>]
    ELSE [npm |-> IF yarn_lock THEN <<"yarn">> ELSE <<"npm">>,
          lock |-> IF yarn_lock THEN "present" ELSE "missing",
          looked |-> <<>>, warnings |-> <<>>]

\* lines 81-94: the tool command before it is normalised, with what was read
\* (yarn.lock, the execution path) and what was logged as a warning
find_tool(npm, yarn_lock, onPath) ==
    IF npm.kind = "str"
    THEN [npm |-> <<npm.str>>, lock |-> "unread", looked |-> <<>>, warnings |-> <<>>]
    ELSE IF npm.kind = "list"
    THEN [npm |-> npm.list, lock |-> "unread", looked |-> <<>>, warnings |-> <<>>]
    ELSE IF yarn_lock /\ which("yarn", onPath) = None
    THEN [npm |-> <<"npm">>, lock |-> "present",
          looked |-> << <<"yarn", None>> >>,
          warnings |-> <<"yarn not found, ignoring yarn.lock file">>]
    ELSE IF yarn_lock
    THEN [npm |-> <<"yarn">>, lock |-> "present",
          looked |-> << <<"yarn", which("yarn", onPath)>> >>, warnings |-> <<>>]
    ELSE [npm |-> <<"npm">>, lock |-> "missing", looked |-> <<>>, warnings |-> <<>>]

\* a plausible slip: a command that is not found is passed on as it is
normalize_cmd_no_raise(cmd, onPath) ==
    IF cmd = <<>> THEN [error |-> "IndexError", named |-> None, cmd |-> cmd, looked |-> <<>>]
    ELSE IF is_absolute(cmd[1]) THEN [error |-> None, named |-> None, cmd |-> cmd, looked |-> <<>>]
    ELSE IF which(cmd[1], onPath) = None
    THEN [error |-> None, named |-> None, cmd |-> cmd, looked |-> << <<cmd[1], None>> >>]
    ELSE [error |-> None, named |-> None,
          cmd |-> [cmd EXCEPT ![1] = which(cmd[1], onPath)],
          looked |-> << <<cmd[1], which(cmd[1], onPath)>> >>]

\* a plausible slip: the path that was found is not stored into the command
normalize_cmd_no_store(cmd, onPath) ==
    IF cmd = <<>> THEN [error |-> "IndexError", named |-> None, cmd |-> cmd, looked |-> <<>>]
    ELSE IF is_absolute(cmd[1]) THEN [error |-> None, named |-> None, cmd |-> cmd, looked |-> <<>>]
    ELSE IF which(cmd[1], onPath) = None
    THEN [error |-> "ValueError", named |-> cmd[1], cmd |-> cmd,
          looked |-> << <<cmd[1], None>> >>]
    ELSE [error |-> None, named |-> None, cmd |-> cmd,
          looked |-> << <<cmd[1], which(cmd[1], onPath)>> >>]

\* normalize_cmd on a list (npm_builder and run never pass a string): the
\* command with its first word resolved, or the error raised; looked is the
\* which() call made, with its answer
normalize_cmd(cmd, onPath) ==
    IF cmd = <<>>
    THEN [error |-> "IndexError", named |-> None, cmd |-> cmd, looked |-> <<>>]
    ELSE IF is_absolute(cmd[1])
    THEN [error |-> None, named |-> None, cmd |-> cmd, looked |-> <<>>]
    ELSE IF which(cmd[1], onPath) = None
    THEN [error |-> "ValueError", named |-> cmd[1], cmd |-> cmd,
          looked |-> << <<cmd[1], None>> >>]
    ELSE [error |-> None, named |-> None,
          cmd |-> [cmd EXCEPT ![1] = which(cmd[1], onPath)],
          looked |-> << <<cmd[1], which(cmd[1], onPath)>> >>]

\* the condition of line 98
consults_is_stale(build_dir, source_dir, force) ==
    build_dir # None /\ source_dir # None /\ ~force

ExitCodes == {0, 1}

\* a plausible slip: subprocess.call in place of check_call, so that a
\* non-zero exit raises nothing
run_no_check(cmd, cwd, onPath, optInstalled, exit) ==
    LET n == normalize_cmd(cmd, onPath)
    IN IF n.error # None
       THEN [error |-> n.error, named |-> n.named, runs |-> <<>>]
       ELSE LET started == executable(n.cmd[1], onPath, optInstalled)
            IN [error |-> IF ~started THEN "OSError" ELSE None,
                named |-> None,
                runs |-> << [cmd |-> n.cmd, cwd |-> cwd, started |-> started,
                             returncode |-> IF started THEN exit ELSE -1] >>]

\* run(cmd, cwd=cwd): the command normalised again, then subprocess.check_call;
\* returncode is what the subprocess exits with, -1 when it could not be started
run(cmd, cwd, onPath, optInstalled, exit) ==
    LET n == normalize_cmd(cmd, onPath)
    IN IF n.error # None
       THEN [error |-> n.error, named |-> n.named, runs |-> <<>>]
       ELSE LET started == executable(n.cmd[1], onPath, optInstalled)
            IN [error |-> IF ~started THEN "OSError"
                          ELSE IF exit # 0 THEN "CalledProcessError"
                          ELSE None,
                named |-> None,
                runs |-> << [cmd |-> n.cmd, cwd |-> cwd, started |-> started,
                             returncode |-> IF started THEN exit ELSE -1] >>]

\* the trees npm_builder's build_dir and source_dir may name
BuilderTrees == {Absent} \cup {FileNode(m) : m \in Mtimes}

Paths == {"."}

\* the call as it starts: sys.argv as the call finds it, its arguments and the
\* locals of lines 60-70. npm is the tool command of line 94, before
\* normalize_cmd resolves its first word; npm_cmd is the command of line 96.
Entered(target_name, path, build_dir, source_dir, build_cmd, force, npm, is_git_checkout) ==
    [state |-> "returned", argv_in |-> argv,
     target_name |-> target_name, build_dir |-> build_dir,
     source_dir |-> source_dir, force |-> force, npm_arg |-> npm,
     abs_path |-> resolve(path), is_git_checkout |-> is_git_checkout,
     build_cmd |-> build_cmd,
     skip_npm |-> FALSE,
     lock |-> "unread", looked |-> <<>>, warnings |-> <<>>,
     npm |-> <<>>, npm_cmd |-> <<>>,
     stale_of |-> <<>>, should_build |-> FALSE,
     runs |-> <<>>, error |-> None, named |-> None]

\* lines 103-107, once should_build is known: install, then the build command
\* when one is set; an error raised by the first run ends the call
Build(c, should_build, stale_of, onPath) ==
    LET d == [c EXCEPT !.should_build = should_build, !.stale_of = stale_of]
    IN IF ~should_build THEN call' = d
       ELSE \E optInstalled \in BOOLEAN, exit1 \in ExitCodes :
              LET install == run(d.npm_cmd \o <<"install">>, d.abs_path, onPath,
                                 optInstalled, exit1)
              IN IF install.error # None \/ d.build_cmd = None
                 THEN call' = [d EXCEPT !.runs = install.runs,
                                        !.error = install.error,
                                        !.named = install.named]
                 ELSE \E exit2 \in ExitCodes :
                        LET build == run(d.npm_cmd \o <<"run", d.build_cmd>>,
                                         d.abs_path, onPath, optInstalled, exit2)
                        IN call' = [d EXCEPT !.runs = install.runs \o build.runs,
                                             !.error = build.error,
                                             !.named = build.named]

\* the values lines 78-79 can leave in build_cmd, over every version and
\* every editable_build_cmd
BuildCmds(build_cmd) ==
    {effective_build_cmd(version, build_cmd, editable_build_cmd) :
        version \in {"standard", "editable"}, editable_build_cmd \in {None, "watch"}}

\* lines 78-101, for a call that is not skipped
Resolve(c) ==
    \E cmd \in BuildCmds(c.build_cmd), yarn_lock \in BOOLEAN,
       onPath \in SUBSET ToolNames :
       LET t == find_tool(c.npm_arg, yarn_lock, onPath)
           n == normalize_cmd(t.npm, onPath)
           d == [c EXCEPT !.build_cmd = cmd,
                          !.lock = t.lock, !.warnings = t.warnings,
                          !.npm = t.npm, !.npm_cmd = n.cmd,
                          !.looked = t.looked \o n.looked,
                          !.error = n.error, !.named = n.named]
       IN IF n.error # None THEN call' = d
          ELSE IF consults_is_stale(c.build_dir, c.source_dir, c.force)
          THEN \E t_dir \in BuilderTrees, s_dir \in BuilderTrees :
                  Build(d, is_stale(t_dir, s_dir), <<t_dir, s_dir>>, onPath)
          ELSE Build(d, TRUE, <<>>, onPath)

npm_builder ==
    /\ call = NoCall
    /\ calls < MaxCalls
    /\ \E target_name \in {"wheel", "sdist"}, path \in Paths,
          build_dir \in {None, "lib"}, source_dir \in {None, "src"},
          build_cmd \in {None, "build"}, force \in BOOLEAN, npm \in NpmArgs,
          is_git_checkout \in BOOLEAN :
         LET c == Entered(target_name, path, build_dir, source_dir, build_cmd,
                          force, npm, is_git_checkout)
         IN IF \/ skip_requested(argv, environ)
               \/ wheel_from_sdist(target_name, is_git_checkout, force)
            THEN call' = [c EXCEPT !.skip_npm = TRUE]
            ELSE Resolve(c)
    /\ argv' = argv_after(argv, environ)
    /\ calls' = calls + 1
    /\ UNCHANGED <<argv0, environ>>
    /\ UNCHANGED staleVars

\* npm_builder has returned or raised: its frame is gone, the caller goes on
Return ==
    /\ call # NoCall
    /\ call' = NoCall
    /\ UNCHANGED <<argv0, argv, environ, calls>>
    /\ UNCHANGED staleVars

Init ==
    /\ argv0 \in Argvs
    /\ argv = argv0
    /\ environ \in EnvValues
    /\ calls = 0
    /\ call = NoCall
    /\ target = Absent
    /\ source = Absent
    /\ verdict = <<>>

Next == npm_builder \/ Return

Spec == Init /\ [][Next]_vars

\* ------------------------------------------------------- claims: is_stale
Returned == verdict # <<>>

\* every file under p (recursively): the set of their mtimes
FileMtimes(p) == IF is_file(p) THEN {p.mt} ELSE Range(walk(p))

SomeSourceNewer == \E s \in FileMtimes(source) : \A t \in FileMtimes(target) : s > t

AllSourceOlder == \A s \in FileMtimes(source) : \A t \in FileMtimes(target) : s <= t

\* C1, as the claim states it: for a target and a source that both exist,
\* is_stale is false when every file under source is no newer than every file
\* under target, and true when some file under source is strictly newer than
\* the newest file under target; a target directory without files included.
C1_AsClaimed ==
    (Returned /\ exists(target) /\ exists(source)) =>
        /\ AllSourceOlder => verdict[1] = FALSE
        /\ SomeSourceNewer => verdict[1] = TRUE

\* C1, amended: for a target and a source that both exist, with mtimes >= 0:
\* when the target holds at least one file (it is a file, or a directory with
\* a file somewhere under it), is_stale is true exactly when some file under
\* source is strictly newer than the newest file under target, hence false
\* when every source file is no newer than every target file; when the target
\* is a directory holding no file, is_stale is true exactly when the source
\* holds at least one file.
C1_StaleByMtime ==
    (Returned /\ exists(target) /\ exists(source)) =>
        IF FileMtimes(target) # {}
        THEN /\ verdict[1] = SomeSourceNewer
             /\ AllSourceOlder => verdict[1] = FALSE
        ELSE verdict[1] = (FileMtimes(source) # {})

\* a nested target directory whose newest file is not the last one walked, and
\* a source directory whose newest file is exactly as new: not stale
C1_Witness ==
    /\ Returned
    /\ target.kind = "dir" /\ target.subs # <<>> /\ walk(target) = <<MaxMtime, 0>>
    /\ source.kind = "dir" /\ MaxMtime \in FileMtimes(source)
    /\ verdict[1] = FALSE

\* C2: is_stale is false whenever source does not exist, whether or not target
\* exists; it is true whenever source exists and target does not, whatever
\* source holds.
C2_ExistenceOrder ==
    Returned =>
        /\ ~exists(source) => verdict[1] = FALSE
        /\ (exists(source) /\ ~exists(target)) => verdict[1] = TRUE

\* a source directory without files and no target: stale
C2_Witness ==
    /\ Returned
    /\ ~exists(target)
    /\ source = DirNode(<<>>, <<>>)
    /\ verdict[1] = TRUE

\* ---------------------------------------------------- claims: npm_builder
Called == call # NoCall

\* a skip signal is present at the moment of the call
SignalPresent == SKIP_FLAG \in Range(call.argv_in) \/ environ = "1"

InstallCmd == call.npm_cmd \o <<"install">>

BuildCmd == call.npm_cmd \o <<"run", call.build_cmd>>

Succeeded(r) == r.started /\ r.returncode = 0

\* the tool command was resolved: normalize_cmd raised nothing
Resolved == ~call.skip_npm /\ call.error \notin {"ValueError", "IndexError"}

\* the staleness check, where lines 98-101 consult it, reports the target stale
NotUpToDate ==
    consults_is_stale(call.build_dir, call.source_dir, call.force) =>
        /\ call.stale_of # <<>>
        /\ is_stale(call.stale_of[1], call.stale_of[2])

\* C3, as the claim states it: in a checkout (.git present) a call with
\* target_name "wheel" always attempts install and then build, whatever force,
\* the other arguments and the ambient state are.
C3_AsClaimed ==
    (Called /\ call.is_git_checkout /\ call.target_name = "wheel") =>
        /\ Len(call.runs) = 2
        /\ call.runs[1].cmd = InstallCmd
        /\ call.runs[2].cmd = BuildCmd

\* C3, amended: in a checkout a call with target_name "wheel" is skipped
\* exactly when a skip signal is present, for force=True and force=False alike;
\* when no skip signal is present, the tool command resolves and the staleness
\* check (consulted only when build_dir and source_dir are both given and force
\* is false) does not report the target up to date, the call attempts the
\* install invocation first and, when the install exits zero and a build
\* command is set, the build invocation next.
C3_WheelInCheckoutBuilds ==
    (Called /\ call.is_git_checkout /\ call.target_name = "wheel") =>
        /\ call.skip_npm = SignalPresent
        /\ (~SignalPresent /\ Resolved /\ NotUpToDate) =>
              /\ Len(call.runs) >= 1
              /\ call.runs[1].cmd = InstallCmd
              /\ (Succeeded(call.runs[1]) /\ call.build_cmd # None) =>
                    /\ Len(call.runs) = 2
                    /\ call.runs[2].cmd = BuildCmd

\* a wheel built in a checkout with force=False: install and build both ran
C3_Witness ==
    /\ Called /\ call.is_git_checkout /\ call.target_name = "wheel"
    /\ ~call.force
    /\ Len(call.runs) = 2 /\ call.error = None

\* C4: without .git, a call with target_name "wheel" and force=False invokes
\* no external tool and returns without error, whatever the tool override,
\* build_dir, source_dir and build command are and whatever the execution
\* path holds.
C4_WheelFromSdistSkips ==
    (Called /\ ~call.is_git_checkout /\ call.target_name = "wheel" /\ ~call.force) =>
        /\ call.runs = <<>>
        /\ call.error = None

\* no skip signal, no .git, a wheel, an explicit tool and both directories given
C4_Witness ==
    /\ Called /\ ~SignalPresent
    /\ ~call.is_git_checkout /\ call.target_name = "wheel" /\ ~call.force
    /\ call.npm_arg = NpmList(<<>>)
    /\ call.build_dir # None /\ call.source_dir # None
    /\ call.skip_npm /\ call.runs = <<>> /\ call.error = None

\* C5: with a skip signal present when npm_builder is called (the environment
\* variable equal to "1", or --skip-npm in the argument list), the call
\* invokes no external tool and raises nothing, whatever the other inputs are.
C5_SkipSignalSuppresses ==
    (Called /\ SignalPresent) =>
        /\ call.runs = <<>>
        /\ call.error = None

\* the environment variable alone, a forced sdist build in a checkout with a
\* tool argument that would raise
C5_Witness ==
    /\ Called /\ environ = "1" /\ SKIP_FLAG \notin Range(call.argv_in)
    /\ call.force /\ call.target_name = "sdist" /\ call.is_git_checkout
    /\ call.npm_arg = NpmList(<<>>)
    /\ call.runs = <<>> /\ call.error = None

WithoutFlag(av) == SelectSeq(av, LAMBDA w : w # SKIP_FLAG)

\* C6, as the claim states it: in a process started with --skip-npm in its
\* argument list, no call of any sequence of npm_builder calls invokes an
\* external tool, and after the first call the argument list holds --skip-npm
\* no more while its other elements are unchanged.
C6_AsClaimed ==
    SKIP_FLAG \in Range(argv0) =>
        /\ Called => call.runs = <<>>
        /\ calls >= 1 => /\ SKIP_FLAG \notin Range(argv)
                         /\ argv = WithoutFlag(argv0)

YarnFound == \E i \in 1..Len(call.looked) : call.looked[i] = <<"yarn", BinPath("yarn")>>

YarnMissing == \E i \in 1..Len(call.looked) : call.looked[i] = <<"yarn", None>>

RunsUse(tool) == \A i \in 1..Len(call.runs) : call.runs[i].cmd[1] = BinPath(tool)

\* C7: in a call that is not skipped and has no explicit tool: with a yarn.lock
\* and yarn found on the execution path, the tool command invoked is yarn;
\* with a yarn.lock and yarn not found, it is npm and a warning is logged;
\* without a yarn.lock, it is npm and no warning is logged.
C7_DefaultTool ==
    (Called /\ ~call.skip_npm /\ call.npm_arg = NpmNone) =>
        /\ call.lock \in {"present", "missing"}
        /\ call.lock = "present" => (YarnFound \/ YarnMissing)
        /\ (call.lock = "present" /\ YarnFound) =>
              /\ call.npm = <<"yarn">>
              /\ RunsUse("yarn")
              /\ call.warnings = <<>>
        /\ (call.lock = "present" /\ YarnMissing) =>
              /\ call.npm = <<"npm">>
              /\ RunsUse("npm")
              /\ call.warnings = <<"yarn not found, ignoring yarn.lock file">>
        /\ call.lock = "missing" =>
              /\ call.npm = <<"npm">>
              /\ RunsUse("npm")
              /\ call.warnings = <<>>

\* a yarn.lock, no yarn: npm is invoked and the warning is logged
C7_Witness ==
    /\ Called /\ ~call.skip_npm /\ call.npm_arg = NpmNone
    /\ call.lock = "present" /\ YarnMissing
    /\ call.warnings # <<>>
    /\ call.runs # <<>> /\ call.runs[1].cmd[1] = BinPath("npm")

\* C8: in a call that is not skipped, when the first word of the tool command
\* is not an absolute path and is not found on the execution path, the call
\* fails with a ValueError naming that word and no subprocess has run before,
\* also when build_dir and source_dir are given and force is false.
C8_UnresolvedToolRaises ==
    (/\ Called /\ ~call.skip_npm /\ call.npm # <<>>
     /\ ~is_absolute(call.npm[1])
     /\ \E i \in 1..Len(call.looked) : call.looked[i] = <<call.npm[1], None>>) =>
        /\ call.error = "ValueError"
        /\ call.named = call.npm[1]
        /\ call.runs = <<>>

\* the lookup fails in a call that would have consulted the staleness check
C8_Witness ==
    /\ Called /\ ~call.skip_npm
    /\ call.error = "ValueError" /\ call.named = "npm"
    /\ call.build_dir # None /\ call.source_dir # None /\ ~call.force
    /\ call.runs = <<>>

\* C9: a call that decides to build invokes `<tool> install` first, in the
\* base path; `<tool> run <build_cmd>` follows, in the same directory, only
\* after the install has exited with status zero, and then always when a build
\* command is set. A failed install raises to the caller and nothing is
\* invoked after it; nothing is invoked twice.
C9_InstallThenBuild ==
    Called =>
        /\ Len(call.runs) <= 2
        /\ (Resolved /\ call.should_build) => Len(call.runs) >= 1
        /\ Len(call.runs) >= 1 =>
              /\ call.runs[1].cmd = InstallCmd
              /\ call.runs[1].cwd = call.abs_path
              /\ ~Succeeded(call.runs[1]) =>
                    /\ Len(call.runs) = 1
                    /\ call.error \in {"CalledProcessError", "OSError"}
              /\ (Succeeded(call.runs[1]) /\ call.build_cmd # None) =>
                    Len(call.runs) = 2
        /\ Len(call.runs) = 2 =>
              /\ Succeeded(call.runs[1])
              /\ call.build_cmd # None
              /\ call.runs[2].cmd = BuildCmd
              /\ call.runs[2].cwd = call.abs_path
              /\ ~Succeeded(call.runs[2]) => call.error = "CalledProcessError"

\* the install exits non-zero with a build command set: one invocation only
C9_Witness ==
    /\ Called /\ call.build_cmd = "build"
    /\ Len(call.runs) = 1
    /\ call.runs[1].started /\ call.runs[1].returncode = 1
    /\ call.error = "CalledProcessError"

\* C10, as the claim states it: whenever a subprocess is about to be executed,
\* the first word of its command is an absolute path that exists and is
\* executable, however the tool was given.
C10_AsClaimed ==
    Called => \A i \in 1..Len(call.runs) :
                 /\ is_absolute(call.runs[i].cmd[1])
                 /\ call.runs[i].started

\* C10, amended: whenever a subprocess is about to be executed, the first word
\* of its command is an absolute path: for a tool given by a bare name (by
\* default detection, as a string or as the first element of a list) it is the
\* path a search of the execution path found for that name, which exists and
\* is executable; for a tool whose first word is already an absolute path it is
\* that path as given, which is not checked and may not exist.
C10_FirstWordAbsolute ==
    Called => \A i \in 1..Len(call.runs) :
                 /\ is_absolute(call.runs[i].cmd[1])
                 /\ IF is_absolute(call.npm[1])
                    THEN call.runs[i].cmd[1] = call.npm[1]
                    ELSE /\ call.runs[i].cmd[1] = BinPath(call.npm[1])
                         /\ \E k \in 1..Len(call.looked) :
                               call.looked[k] = <<call.npm[1], BinPath(call.npm[1])>>
                         /\ call.runs[i].started

\* an absolute path given in a list, with no file behind it: the subprocess
\* is attempted and cannot be started
C10_Witness ==
    /\ Called /\ call.npm_arg = NpmList(<<OptNpm>>)
    /\ Len(call.runs) = 1
    /\ ~call.runs[1].started
    /\ call.error = "OSError"

====
